---------------------------- MODULE Spec2Model ----------------------------
(***************************************************************************)
(* The formats page of showdown-stats (docs/formats/formats.js): the three *)
(* globals statsData, currentSort and currentRatingFilter, the load        *)
(* sequence of the DOMContentLoaded handler, the header-click and          *)
(* rating-filter handlers, renderTable and renderFormatDetail, and the     *)
(* parts of the page they write.                                           *)
(*                                                                         *)
(* Numbers.  Battle counts are naturals.  A percentage is the exact        *)
(* rational [num, den] of the JavaScript expression that produces it       *)
(* (binary floating-point rounding is not modelled); den = 0 stands for    *)
(* NaN.  A by_rating object is a function whose domain is the set of its   *)
(* keys, each key being the integer its decimal string denotes.            *)
(* The text of #period-info and the thousands separators of formatNumber   *)
(* are not modelled.                                                       *)
(***************************************************************************)
EXTENDS Integers, Sequences, FiniteSets

\* ------------------------------------------------------------------ bounds
\* Most formats in a snapshot.
MaxFormats == 2
\* Rating thresholds are 0..MaxRating.
MaxRating == 3

\* ------------------------------------------------------- strings and numbers
\* String(n) for the thresholds of the model: the value of a dropdown option.
DecimalStrings == <<"1", "2", "3", "4", "5", "6", "7", "8", "9">>

NumberToString(n) == IF n = 0 THEN "0" ELSE DecimalStrings[n]

\* parseInt of a decimal string, formats.js:85 and :93.
parseInt(s) ==
    IF s = "0" THEN 0
    ELSE CHOOSE n \in 1..Len(DecimalStrings) : DecimalStrings[n] = s

\* The names of the formats of a snapshot, by position in the formats array.
FormatNames == <<"uu", "ou", "ubers", "lc", "vgc">>

\* String order of the names that occur (a.localeCompare(b) < 0 iff rank a < rank b);
\* "undefined" is what localeCompare compares with when handed undefined.
StringRank(s) ==
    CASE s = "lc" -> 1
      [] s = "ou" -> 2
      [] s = "ubers" -> 3
      [] s = "undefined" -> 4
      [] s = "uu" -> 5
      [] s = "vgc" -> 6

localeCompare(a, b) == StringRank(a) - StringRank(b)

RECURSIVE SumSeq(_)
SumSeq(s) == IF s = <<>> THEN 0 ELSE Head(s) + SumSeq(Tail(s))

Min(S) == CHOOSE x \in S : \A y \in S : x <= y

\* ------------------------------------------------------------ the snapshot
\* The count of a format at key k is c * (MaxRating + 1 - k) for a scale c of its own.
Scales == {1, 2}

\* A by_rating object with keys D and scale c: counts fall as the threshold rises.
ByRating(D, c) == [k \in D |-> c * (MaxRating + 1 - k)]

\* The key sets of the by_rating objects of the model: every threshold, or every
\* threshold but one, the one missing being the lowest, the second highest or the
\* highest (a request for it finds several higher keys, one, or none).
KeySets ==
    {0..MaxRating}
    \cup {(0..MaxRating) \ {m} : m \in {1, MaxRating - 1, MaxRating} \ {0}}

ByRatingMaps == {ByRating(D, c) : D \in KeySets, c \in Scales}

\* The stored percentage of a format: its share of the snapshot's battles as the
\* data file holds it, rounded down to a whole number.
StoredPercentage(b, total) ==
    [num |-> IF total > 0 THEN (b * 100) \div total ELSE 0, den |-> 1]

\* A FormatRecord of the data file.  The property holding the format's name is
\* format_name (formats.js:146, :149, :229, :262); a record has no property "name".
FormatRecord(i, br, total) ==
    [format_name |-> FormatNames[i],
     total_battles |-> br[0],
     percentage |-> StoredPercentage(br[0], total),
     by_rating |-> br]

FormatsOf(brs) ==
    LET total == SumSeq([i \in 1..Len(brs) |-> brs[i][0]])
    IN [i \in 1..Len(brs) |-> FormatRecord(i, brs[i], total)]

FormatArrays ==
    {FormatsOf(brs) : brs \in UNION {[1..n -> ByRatingMaps] : n \in 0..MaxFormats}}

\* A parsed JSON value: null, or an object with the properties named in props.
JsonNull ==
    [isNull |-> TRUE, props |-> {}, total_battles |-> 0,
     rating_thresholds |-> <<>>, formats |-> <<>>]

Snapshot(fs, props) ==
    [isNull |-> FALSE, props |-> props,
     total_battles |-> IF "total_battles" \in props
                       THEN SumSeq([i \in 1..Len(fs) |-> fs[i].total_battles]) ELSE 0,
     rating_thresholds |-> IF "rating_thresholds" \in props
                           THEN [i \in 1..(MaxRating + 1) |-> i - 1] ELSE <<>>,
     formats |-> IF "formats" \in props THEN fs ELSE <<>>]

AllProps == {"total_battles", "rating_thresholds", "formats"}

\* Data files of the StatsSnapshot shape.
ValidSnapshots == {Snapshot(fs, AllProps) : fs \in FormatArrays}

\* Data files that parse as JSON and are not of the StatsSnapshot shape: null, an
\* object without formats, and an object without total_battles.
MalformedSnapshots ==
    {JsonNull, Snapshot(<<>>, {"total_battles", "rating_thresholds"})}
    \cup {Snapshot(fs, {"rating_thresholds", "formats"}) :
              fs \in {f \in FormatArrays : Len(f) <= 1}}

Has(obj, p) == ~obj.isNull /\ p \in obj.props

\* statsData is truthy (formats.js:79, :227).
Truthy(sd) == ~sd.isNull

\* ------------------------------------------------------------ RatingResolver
RECURSIVE SortAscending(_)
\* [...].sort((a, b) => a - b) of a set of numbers.
SortAscending(S) ==
    IF S = {} THEN <<>> ELSE <<Min(S)>> \o SortAscending(S \ {Min(S)})

\* ResolveBattles with the available ratings taken from the top: the largest key
\* at or above the threshold instead of the smallest.
ResolveBattlesLargestKey(format, rating) ==
    LET by_rating == format.by_rating
        availableRatings == SortAscending({r \in DOMAIN by_rating : r >= rating})
    IN IF rating \in DOMAIN by_rating THEN by_rating[rating]
       ELSE IF Len(availableRatings) > 0
       THEN by_rating[availableRatings[Len(availableRatings)]]
       ELSE 0

\* The battle count of a format under the threshold rating (formats.js:88-102).
ResolveBattles(format, rating) ==
    LET by_rating == format.by_rating
        availableRatings == SortAscending({r \in DOMAIN by_rating : r >= rating})
    IN IF rating \in DOMAIN by_rating THEN by_rating[rating]
       ELSE IF Len(availableRatings) > 0 THEN by_rating[availableRatings[1]]
       ELSE 0

\* ------------------------------------------------------------ TableProjector
\* format.total_battles / totalFiltered * 100, or 0 (formats.js:115-117).
Percentage(total_battles, totalFiltered) ==
    IF totalFiltered > 0
    THEN [num |-> total_battles * 100, den |-> totalFiltered]
    ELSE [num |-> 0, den |-> 1]

\* The object the map callback returns (formats.js:104-108).
MapFormat(format, rating) ==
    [format EXCEPT !.total_battles = ResolveBattles(format, rating),
                   !.percentage = [num |-> 0, den |-> 1]]

\* Survives keeping the formats that resolve to no battles.
SurvivesWithZero(format) == format.total_battles >= 0

\* The filter callback (formats.js:110).
Survives(format) == format.total_battles > 0

\* The formats array after the rating filter (formats.js:81-119).
ProjectFormats(sd, filter) ==
    IF filter /= "0"
    THEN LET rating == parseInt(filter)
             mapped == [i \in 1..Len(sd.formats) |-> MapFormat(sd.formats[i], rating)]
             kept == SelectSeq(mapped, Survives)
             totalFiltered == SumSeq([i \in 1..Len(kept) |-> kept[i].total_battles])
         IN [i \in 1..Len(kept) |->
                [kept[i] EXCEPT !.percentage =
                                    Percentage(kept[i].total_battles, totalFiltered)]]
    ELSE sd.formats

\* ---------------------------------------------------------------- SortEngine
\* a.percentage - b.percentage, as a sign-preserving integer.
PercentageDifference(p, q) == p.num * q.den - q.num * p.den

\* The comparator reads a.name (formats.js:127): a TypeError when a has no such
\* property, localeCompare being called on undefined.
ComparatorThrows(a, b, column) == column = "format-name" /\ "name" \notin DOMAIN a

\* The comparator of formats.sort (formats.js:122-138), where it does not throw.
CompareFormats(a, b, sort) ==
    LET comparison ==
            CASE sort.column = "format-name" ->
                     IF "name" \in DOMAIN a
                     THEN localeCompare(a["name"], b.format_name) ELSE 0
              [] sort.column = "percentage" ->
                     PercentageDifference(a.percentage, b.percentage)
              [] sort.column = "battles" -> a.total_battles - b.total_battles
              [] OTHER -> 0
    IN IF sort.direction = "asc" THEN comparison ELSE -comparison

RECURSIVE InsertSorted(_, _, _)
InsertSorted(x, s, sort) ==
    IF s = <<>> THEN <<x>>
    ELSE IF CompareFormats(Head(s), x, sort) <= 0
         THEN <<Head(s)>> \o InsertSorted(x, Tail(s), sort)
         ELSE <<x>> \o s

RECURSIVE StableSort(_, _)
\* Array.prototype.sort with a comparator: stable.
StableSort(s, sort) ==
    IF s = <<>> THEN <<>>
    ELSE InsertSorted(s[Len(s)], StableSort(SubSeq(s, 1, Len(s) - 1), sort), sort)

\* formats.sort(...): the comparator is called once the array has two elements, and
\* an exception it throws leaves sort.
SortFormats(formats, sort) ==
    IF Len(formats) >= 2
       /\ \E i, j \in 1..Len(formats) :
              i /= j /\ ComparatorThrows(formats[i], formats[j], sort.column)
    THEN [threw |-> TRUE, formats |-> <<>>]
    ELSE [threw |-> FALSE, formats |-> StableSort(formats, sort)]

\* ------------------------------------------------------------------ Renderer
\* percentage.toFixed(2), in hundredths.
toFixed2(p) == (p.num * 200 + p.den) \div (2 * p.den)

\* A row of the table body (formats.js:144-155), with the values it was made from.
RowOf(format) ==
    [format_name |-> format.format_name,
     percentage |-> format.percentage,
     percentageText |-> toFixed2(format.percentage),
     total_battles |-> format.total_battles]

\* renderTable (formats.js:78-159): "skipped" is the early return, "threw" a
\* TypeError leaving the function before the table body is written.
RenderTable(sd, sort, filter) ==
    IF ~Truthy(sd) THEN [status |-> "skipped", rows |-> <<>>]
    ELSE IF ~Has(sd, "formats") THEN [status |-> "threw", rows |-> <<>>]
    ELSE LET sorted == SortFormats(ProjectFormats(sd, filter), sort)
         IN IF sorted.threw THEN [status |-> "threw", rows |-> <<>>]
            ELSE [status |-> "ok",
                  rows |-> [i \in 1..Len(sorted.formats) |-> RowOf(sorted.formats[i])]]

\* ----------------------------------------------------------- renderFormatDetail
\* FindFormat reading the property "name", which the records do not have.
FindFormatByName(formats, formatName) ==
    {i \in 1..Len(formats) :
         "name" \in DOMAIN formats[i] /\ formats[i]["name"] = formatName}

\* statsData.formats.find(f => f.format_name === formatName) (formats.js:229):
\* the positions of the matching records; find returns the first.
FindFormat(formats, formatName) ==
    {i \in 1..Len(formats) : formats[i].format_name = formatName}

HiddenDetail == [display |-> "none", content |-> "empty", format_name |-> ""]

\* renderFormatDetail (formats.js:226-284): what it makes of the table container
\* and of the format-detail region.
RenderFormatDetail(sd, formatName) ==
    IF ~Truthy(sd) THEN [status |-> "skipped", detail |-> HiddenDetail]
    ELSE IF ~Has(sd, "formats") THEN [status |-> "threw", detail |-> HiddenDetail]
    ELSE IF FindFormat(sd.formats, formatName) = {}
    THEN [status |-> "ok",
          detail |-> [display |-> "block", content |-> "notfound",
                      format_name |-> formatName]]
    ELSE [status |-> "ok",
          detail |-> [display |-> "block", content |-> "record",
                      format_name |->
                          sd.formats[Min(FindFormat(sd.formats, formatName))].format_name]]

\* ------------------------------------------------------------------- the page
\* getFormatFromUrl() (formats.js:212-215): null without the parameter, else its
\* value, which may be the empty string.
NoParam == "<null>"
UrlFormats == {NoParam, "", "ou"}

\* if (formatName) (formats.js:44, :220).
TruthyParam(f) == f /= NoParam /\ f /= ""

\* The data-sort keys of the sortable headers (copilot-instructions.md:39 and the
\* cases of the switch, formats.js:126-132).
HeaderKeys == {"format-name", "percentage", "battles"}

VARIABLES
    pc,                   \* where the DOMContentLoaded handler stands
    indexFetch,           \* fetch('../index.json'): none, pending, ok, failed
    dataFetch,            \* fetch(`${latestPeriod}.json`): none, pending, ok, failed
    formatParam,          \* the format parameter of the page's URL
    statsData,            \* formats.js:3
    currentSort,          \* formats.js:4
    currentRatingFilter,  \* formats.js:5
    listeners,            \* setupEventListeners has run
    tableBody,            \* #table-body: as the page came, the error row, or rows
    ratingOptions,        \* the values of the options of #rating-filter
    sortIndicator,        \* the header carrying a sort-asc / sort-desc class
    summary,              \* #total-battles and #format-count
    tableContainer,       \* display of #table-container
    detail,               \* #format-detail
    outcome,              \* how the last handler run ended: ok, caught, uncaught
    loadFailed,           \* the catch block of loadLatestData has run
    loadedSnapshot        \* the value dataResponse.json() resolved with

vars == <<pc, indexFetch, dataFetch, formatParam, statsData, currentSort,
          currentRatingFilter, listeners, tableBody, ratingOptions, sortIndicator,
          summary, tableContainer, detail, outcome, loadFailed, loadedSnapshot>>

globals == <<statsData, currentSort, currentRatingFilter>>
network == <<indexFetch, dataFetch>>
page == <<tableBody, ratingOptions, sortIndicator, summary, tableContainer, detail>>

InitialBody == [kind |-> "initial", rows |-> <<>>]
ErrorBody == [kind |-> "error", rows |-> <<>>]
NoIndicator == [column |-> "", direction |-> ""]
NoSummary == [total_battles |-> -1, format_count |-> -1]

Init ==
    /\ pc = "start"
    /\ indexFetch = "none"
    /\ dataFetch = "none"
    /\ formatParam \in UrlFormats
    /\ statsData = JsonNull
    /\ currentSort = [column |-> "battles", direction |-> "desc"]
    /\ currentRatingFilter = "0"
    /\ listeners = FALSE
    /\ tableBody = InitialBody
    /\ ratingOptions = {"0"}
    /\ sortIndicator = NoIndicator
    /\ summary = NoSummary
    /\ tableContainer = "shown"
    /\ detail = HiddenDetail
    /\ outcome = "none"
    /\ loadFailed = FALSE
    /\ loadedSnapshot = JsonNull

\* ------------------------------------------------------------ loadLatestData
\* The catch block (formats.js:50-59); loadLatestData then returns.
Catch ==
    /\ tableBody' = ErrorBody
    /\ loadFailed' = TRUE
    /\ outcome' = "caught"
    /\ pc' = "loadReturned"

\* The handler starts and loadLatestData issues the index fetch (formats.js:9, :18).
FetchIndex ==
    /\ pc = "start"
    /\ pc' = "awaitIndex"
    /\ indexFetch' = "pending"
    /\ UNCHANGED <<dataFetch, formatParam, globals, listeners, page, outcome, loadFailed,
                   loadedSnapshot>>

\* AfterIndexResponse without the check of indexResponse.ok.
AfterIndexResponseUnchecked(response) ==
    IF response = "rejected" THEN "throw" ELSE "awaitIndexJson"

\* What follows the index response (formats.js:19-23): "throw" or the next await.
AfterIndexResponse(response) == IF response = "ok" THEN "awaitIndexJson" ELSE "throw"

\* The index fetch settles: rejected, or resolved with ok true or false.
IndexResponse(response) ==
    /\ pc = "awaitIndex"
    /\ indexFetch' = IF response = "ok" THEN "ok" ELSE "failed"
    /\ IF AfterIndexResponse(response) = "throw"
       THEN /\ Catch
            /\ UNCHANGED <<ratingOptions, sortIndicator, summary, tableContainer, detail>>
       ELSE /\ pc' = AfterIndexResponse(response)
            /\ UNCHANGED <<page, outcome, loadFailed>>
    /\ UNCHANGED <<dataFetch, formatParam, globals, listeners, loadedSnapshot>>

\* indexResponse.json() settles (formats.js:23-27): a rejection, or a null index
\* whose .latest cannot be read, is caught; else the fetch of the latest period's
\* data is issued.
IndexJson(parsed) ==
    /\ pc = "awaitIndexJson"
    /\ IF parsed
       THEN /\ pc' = "awaitData"
            /\ dataFetch' = "pending"
            /\ UNCHANGED <<page, outcome, loadFailed>>
       ELSE /\ Catch
            /\ UNCHANGED <<dataFetch, ratingOptions, sortIndicator, summary,
                           tableContainer, detail>>
    /\ UNCHANGED <<indexFetch, formatParam, globals, listeners, loadedSnapshot>>

\* The data fetch settles (formats.js:27-30).
DataResponse(response) ==
    /\ pc = "awaitData"
    /\ dataFetch' = IF response = "ok" THEN "ok" ELSE "failed"
    /\ IF response = "ok"
       THEN /\ pc' = "awaitDataJson"
            /\ UNCHANGED <<page, outcome, loadFailed>>
       ELSE /\ Catch
            /\ UNCHANGED <<ratingOptions, sortIndicator, summary, tableContainer, detail>>
    /\ UNCHANGED <<indexFetch, formatParam, globals, listeners, loadedSnapshot>>

\* dataResponse.json() rejects (formats.js:32).
DataJsonRejected ==
    /\ pc = "awaitDataJson"
    /\ Catch
    /\ UNCHANGED <<network, formatParam, globals, listeners, ratingOptions,
                   sortIndicator, summary, tableContainer, detail, loadedSnapshot>>

\* The options populateRatingFilter leaves in the dropdown (formats.js:63-75).
PopulateRatingFilter(options, sd) ==
    IF Truthy(sd) /\ Has(sd, "rating_thresholds")
    THEN options \cup {NumberToString(sd.rating_thresholds[i]) :
                           i \in 1..Len(sd.rating_thresholds)}
    ELSE options

\* The rest of the try block once statsData is assigned (formats.js:35-48), as the
\* page it leaves and whether it threw.  formatNumber(statsData.total_battles)
\* throws on null and on a missing total_battles, statsData.formats.length on
\* missing formats; what was written before the throw stays written.
LoadBody(sd, sort, filter, formatName) ==
    LET base == [threw |-> TRUE, summary |-> NoSummary, options |-> {"0"},
                 body |-> InitialBody, indicator |-> NoIndicator,
                 container |-> "shown", detail |-> HiddenDetail]
    IN IF ~Has(sd, "total_battles") THEN base
       ELSE IF ~Has(sd, "formats")
       THEN [base EXCEPT !.summary = [total_battles |-> sd.total_battles,
                                      format_count |-> -1]]
       ELSE LET shown == [base EXCEPT
                    !.summary = [total_battles |-> sd.total_battles,
                                 format_count |-> Len(sd.formats)],
                    !.options = PopulateRatingFilter({"0"}, sd)]
            IN IF TruthyParam(formatName)
               THEN [shown EXCEPT !.threw = FALSE, !.container = "none",
                                  !.detail = RenderFormatDetail(sd, formatName).detail]
               ELSE LET r == RenderTable(sd, sort, filter)
                    IN IF r.status = "threw" THEN shown
                       ELSE [shown EXCEPT !.threw = FALSE,
                                          !.body = [kind |-> "rows", rows |-> r.rows],
                                          !.indicator = sort]

\* dataResponse.json() resolves with json; statsData is assigned and the rest of the
\* try block runs, an exception in it reaching the catch block (formats.js:32-59).
DataJson(json) ==
    /\ pc = "awaitDataJson"
    /\ statsData' = json
    /\ loadedSnapshot' = json
    /\ LET b == LoadBody(json, currentSort, currentRatingFilter, formatParam)
       IN /\ summary' = b.summary
          /\ ratingOptions' = b.options
          /\ sortIndicator' = b.indicator
          /\ tableContainer' = b.container
          /\ detail' = b.detail
          /\ tableBody' = IF b.threw THEN ErrorBody ELSE b.body
          /\ loadFailed' = b.threw
          /\ outcome' = IF b.threw THEN "caught" ELSE "ok"
    /\ pc' = "loadReturned"
    /\ UNCHANGED <<network, formatParam, currentSort, currentRatingFilter, listeners>>

\* await loadLatestData() resumes: setupEventListeners() and handleRouting()
\* (formats.js:10-11, :162-186, :218-223).  An exception here is not caught.
AfterLoad ==
    /\ pc = "loadReturned"
    /\ pc' = "done"
    /\ listeners' = TRUE
    /\ IF TruthyParam(formatParam)
       THEN LET r == RenderFormatDetail(statsData, formatParam)
            IN /\ outcome' = IF r.status = "threw" THEN "uncaught" ELSE "ok"
               /\ IF r.status = "ok"
                  THEN tableContainer' = "none" /\ detail' = r.detail
                  ELSE UNCHANGED <<tableContainer, detail>>
       ELSE outcome' = "ok" /\ UNCHANGED <<tableContainer, detail>>
    /\ UNCHANGED <<network, formatParam, globals, tableBody, ratingOptions,
                   sortIndicator, summary, loadFailed, loadedSnapshot>>

\* -------------------------------------------------------- interaction handlers
\* The sort state after a click on the header with data-sort column
\* (formats.js:166-175).
NextSort(sort, column) ==
    IF sort.column = column
    THEN [sort EXCEPT !.direction = IF sort.direction = "asc" THEN "desc" ELSE "asc"]
    ELSE [column |-> column, direction |-> IF column = "name" THEN "asc" ELSE "desc"]

\* The globals as a record, for the handlers that assign them.
Globals ==
    [statsData |-> statsData, currentSort |-> currentSort,
     currentRatingFilter |-> currentRatingFilter]

\* OnHeaderClick also resetting the rating filter.
OnHeaderClickResettingFilter(g, column) ==
    [g EXCEPT !.currentSort = NextSort(g.currentSort, column),
              !.currentRatingFilter = "0"]

\* The assignments of the click listener (formats.js:165-176).
OnHeaderClick(g, column) == [g EXCEPT !.currentSort = NextSort(g.currentSort, column)]

\* The assignment of the change listener (formats.js:182-183).
OnFilterChange(g, value) == [g EXCEPT !.currentRatingFilter = value]

\* A listener assigns the globals g and calls renderTable (formats.js:177, :184);
\* updateSortIndicators is the last statement of a render that completes.
AssignAndRender(g) ==
    /\ statsData' = g.statsData
    /\ currentSort' = g.currentSort
    /\ currentRatingFilter' = g.currentRatingFilter
    /\ LET r == RenderTable(g.statsData, g.currentSort, g.currentRatingFilter)
       IN /\ outcome' = IF r.status = "threw" THEN "uncaught" ELSE "ok"
          /\ IF r.status = "ok"
             THEN /\ tableBody' = [kind |-> "rows", rows |-> r.rows]
                  /\ sortIndicator' = g.currentSort
             ELSE UNCHANGED <<tableBody, sortIndicator>>
    /\ UNCHANGED <<pc, network, formatParam, listeners, ratingOptions, summary,
                   tableContainer, detail, loadFailed, loadedSnapshot>>

\* A click on a sortable header.  The headers belong to the table inside
\* #table-container, and a header that is not displayed receives no click.
HeaderClick(column) ==
    /\ listeners
    /\ tableContainer = "shown"
    /\ AssignAndRender(OnHeaderClick(Globals, column))

\* A change of the rating dropdown to one of its options.
FilterChange(value) ==
    /\ listeners
    /\ value \in ratingOptions
    /\ AssignAndRender(OnFilterChange(Globals, value))

FetchOutcomes == {"ok", "notok", "rejected"}

Next ==
    \/ FetchIndex
    \/ \E response \in FetchOutcomes : IndexResponse(response)
    \/ \E parsed \in BOOLEAN : IndexJson(parsed)
    \/ \E response \in FetchOutcomes : DataResponse(response)
    \/ DataJsonRejected
    \/ \E json \in ValidSnapshots \cup MalformedSnapshots : DataJson(json)
    \/ AfterLoad
    \/ \E column \in HeaderKeys : HeaderClick(column)
    \/ \E value \in {NumberToString(r) : r \in 0..MaxRating} : FilterChange(value)

Spec == Init /\ [][Next]_vars

\* ------------------------------------------------------------------ the claims
\* The load sequence has finished without reaching the catch block.
LoadedOk == pc \in {"loadReturned", "done"} /\ ~loadFailed

\* The thresholds a user can request: the dropdown's options other than "0".
RequestableRatings == {parseInt(v) : v \in ratingOptions \ {"0"}}

\* The count the resolver is documented to give: the value at key r, else at the
\* smallest key above r, else 0.
DocumentedCount(by_rating, r) ==
    LET higher == {k \in DOMAIN by_rating : k >= r}
    IN IF r \in DOMAIN by_rating THEN by_rating[r]
       ELSE IF higher /= {} THEN by_rating[CHOOSE k \in higher : \A j \in higher : k <= j]
       ELSE 0

\* C1: for every format of the loaded snapshot and every non-zero threshold r of the
\* dropdown, the count renderTable's map callback resolves is the value at key r
\* when r is a key, else the value at the smallest key >= r, else 0, and it is
\* never the value of a key lower than r.
C1_ResolvedCount ==
    LoadedOk =>
        \A i \in 1..Len(statsData.formats) : \A r \in RequestableRatings :
            LET format == statsData.formats[i]
                battles == MapFormat(format, r).total_battles
            IN /\ battles = DocumentedCount(format.by_rating, r)
               /\ \A k \in DOMAIN format.by_rating : k < r => battles /= format.by_rating[k]

\* C1 witness: a row rendered under a threshold its format has no key for, showing
\* the count of the smallest higher key while a larger key holds another count.
C1_Witness ==
    /\ LoadedOk /\ currentRatingFilter /= "0" /\ outcome = "ok"
    /\ tableBody.kind = "rows"
    /\ \E i \in 1..Len(statsData.formats) :
          LET format == statsData.formats[i]
              r == parseInt(currentRatingFilter)
              higher == {k \in DOMAIN format.by_rating : k >= r}
          IN /\ r \notin DOMAIN format.by_rating
             /\ Cardinality(higher) >= 2
             /\ \E j \in 1..Len(tableBody.rows) :
                   /\ tableBody.rows[j].format_name = format.format_name
                   /\ tableBody.rows[j].total_battles = format.by_rating[Min(higher)]

\* The positions of the formats that resolve to a count above 0 under threshold r.
SurvivorsAt(r) ==
    {i \in 1..Len(statsData.formats) : ResolveBattles(statsData.formats[i], r) > 0}

\* The rows are the survivors of threshold r with their resolved counts and their
\* shares of the survivors' total, and the shares sum to 100.
RowsAreSurvivors(rows, r) ==
    LET total == SumSeq([j \in 1..Len(rows) |-> rows[j].total_battles])
    IN /\ Len(rows) = Cardinality(SurvivorsAt(r))
       /\ \A i \in SurvivorsAt(r) : \E j \in 1..Len(rows) :
              /\ rows[j].format_name = statsData.formats[i].format_name
              /\ rows[j].total_battles = ResolveBattles(statsData.formats[i], r)
       /\ \A j \in 1..Len(rows) :
              rows[j].percentage.num * total
                  = rows[j].total_battles * 100 * rows[j].percentage.den
       /\ (rows /= <<>> =>
              \E d \in {rows[1].percentage.den} :
                  /\ d > 0
                  /\ \A j \in 1..Len(rows) : rows[j].percentage.den = d
                  /\ SumSeq([j \in 1..Len(rows) |-> rows[j].percentage.num]) = 100 * d)

\* C2: under a non-zero rating filter the table shows exactly the formats whose
\* resolved count is above 0, each with percentage = count / sum of counts * 100,
\* the percentages summing to 100.
C2_FilteredRows ==
    (LoadedOk /\ listeners /\ currentRatingFilter /= "0") =>
        /\ tableBody.kind = "rows"
        /\ RowsAreSurvivors(tableBody.rows, parseInt(currentRatingFilter))

\* The toggle rule as documented: a click on the current column flips the
\* direction; another column starts asc when it is the name column, else desc.
DocumentedToggle(sort, column) ==
    IF sort.column = column
    THEN [column |-> column, direction |-> IF sort.direction = "asc" THEN "desc" ELSE "asc"]
    ELSE [column |-> column, direction |-> IF column = "format-name" THEN "asc" ELSE "desc"]

\* C3: SortState starts as {battles, desc} and every header click transforms it by
\* the toggle rule; a click on the name header from another column gives
\* {name, asc}.
C3_ToggleRule ==
    [][\A column \in HeaderKeys :
           HeaderClick(column) => currentSort' = DocumentedToggle(currentSort, column)]_vars

\* The value of a row in a column, as a number that orders it.
RowBefore(a, b, column) ==
    CASE column = "format-name" -> StringRank(a.format_name) <= StringRank(b.format_name)
      [] column = "percentage" -> PercentageDifference(a.percentage, b.percentage) <= 0
      [] column = "battles" -> a.total_battles <= b.total_battles

\* C4: after every render the displayed rows are ordered by the selected column in
\* the selected direction: non-decreasing for asc, non-increasing for desc.
C4_RowsOrdered ==
    (LoadedOk /\ listeners /\ tableBody.kind = "rows") =>
        \A j \in 1..(Len(tableBody.rows) - 1) :
            IF currentSort.direction = "asc"
            THEN RowBefore(tableBody.rows[j], tableBody.rows[j + 1], currentSort.column)
            ELSE RowBefore(tableBody.rows[j + 1], tableBody.rows[j], currentSort.column)

\* C5: rendering never changes the loaded snapshot, and whenever the filter is 0
\* the rows shown are all formats of the snapshot with their stored total_battles
\* and percentage.
C5_SnapshotKept ==
    LoadedOk =>
        /\ statsData = loadedSnapshot
        /\ (currentRatingFilter = "0" /\ tableBody.kind = "rows") =>
               /\ Len(tableBody.rows) = Len(loadedSnapshot.formats)
               /\ \A i \in 1..Len(loadedSnapshot.formats) :
                      \E j \in 1..Len(tableBody.rows) :
                          /\ tableBody.rows[j].format_name = loadedSnapshot.formats[i].format_name
                          /\ tableBody.rows[j].total_battles
                                 = loadedSnapshot.formats[i].total_battles
                          /\ tableBody.rows[j].percentage = loadedSnapshot.formats[i].percentage

\* C6: a failed load is total: the table body shows the error message when the load
\* returns, and afterwards no header click or filter change shows format rows or
\* ends in an uncaught exception.
C6_FailureIsTotal ==
    loadFailed =>
        /\ tableBody.kind /= "rows"
        /\ outcome /= "uncaught"
        /\ (pc = "loadReturned" => tableBody = ErrorBody)

\* The detail region shows "not found" exactly when no record is named F, and the
\* record named F otherwise.
DetailMatches(F) ==
    LET found == \E i \in 1..Len(statsData.formats) : statsData.formats[i].format_name = F
    IN /\ (detail.content = "notfound") <=> ~found
       /\ found => /\ detail.display = "block"
                   /\ detail.content = "record"
                   /\ detail.format_name = F

\* C7 as claimed: after a successful load of a page opened with a format parameter
\* F, "not found" is shown iff no record is named F, else the record's detail view.
C7_DetailForEveryParam == (LoadedOk /\ formatParam /= NoParam) => DetailMatches(formatParam)

\* C7 as amended: the same for every non-empty format parameter F.
C7_DetailForNonEmptyParam == (LoadedOk /\ TruthyParam(formatParam)) => DetailMatches(formatParam)

\* C7 witness: the page was opened for a format the loaded snapshot does not hold,
\* and shows "not found" in place of the table.
C7_Witness ==
    /\ pc = "done" /\ ~loadFailed /\ TruthyParam(formatParam)
    /\ Len(statsData.formats) >= 1
    /\ detail.content = "notfound" /\ tableContainer = "none"

\* C8: when every format resolves to 0 under the selected non-zero filter the table
\* is empty and the handler ends without error, and no row ever shows a percentage
\* with a zero divisor.
C8_ZeroSurvivors ==
    /\ (LoadedOk /\ listeners /\ currentRatingFilter /= "0"
        /\ SurvivorsAt(parseInt(currentRatingFilter)) = {}) =>
           /\ tableBody = [kind |-> "rows", rows |-> <<>>]
           /\ outcome = "ok"
    /\ \A j \in 1..Len(tableBody.rows) : tableBody.rows[j].percentage.den > 0

\* C8 witness: a snapshot with formats, none of which has a key at or above the
\* selected threshold, rendered as an empty table.
C8_Witness ==
    /\ LoadedOk /\ listeners /\ currentRatingFilter /= "0"
    /\ Len(statsData.formats) >= 1
    /\ SurvivorsAt(parseInt(currentRatingFilter)) = {}
    /\ tableBody = [kind |-> "rows", rows |-> <<>>]

\* C9: the data fetch is issued only after the index fetch succeeded, nothing is
\* rendered before both fetches succeeded, and the listeners are attached only
\* after the load sequence has finished.
C9_LoadOrder ==
    /\ dataFetch /= "none" => indexFetch = "ok"
    /\ (tableBody.kind = "rows" \/ detail.display = "block") =>
           (indexFetch = "ok" /\ dataFetch = "ok")
    /\ listeners => pc = "done"

\* C9 witness: rows on the page and the listeners attached, after both fetches.
C9_Witness ==
    /\ listeners /\ tableBody.kind = "rows" /\ Len(tableBody.rows) >= 1
    /\ indexFetch = "ok" /\ dataFetch = "ok"

\* The load sequence is running: every step taken before pc = "done" is one of its
\* steps, the listeners not being attached yet.
LoadRunning == pc /= "done"

\* C10: a header click leaves currentRatingFilter and statsData unchanged, a filter
\* change leaves currentSort and statsData unchanged, and the load changes neither
\* currentSort nor currentRatingFilter.
C10_Frames ==
    [][/\ (\E column \in HeaderKeys : HeaderClick(column)) =>
              UNCHANGED <<currentRatingFilter, statsData>>
       /\ (\E value \in ratingOptions : FilterChange(value)) =>
              UNCHANGED <<currentSort, statsData>>
       /\ LoadRunning => UNCHANGED <<currentSort, currentRatingFilter>>]_vars

\* C10 witness: a header click and a filter change have both acted on a loaded page.
C10_Witness ==
    /\ LoadedOk /\ listeners
    /\ currentRatingFilter /= "0"
    /\ currentSort /= [column |-> "battles", direction |-> "desc"]

=============================================================================
